---- MODULE Spec2Model ----
(***************************************************************************)
(* Device location service: the add_cache management command that reduces  *)
(* the S3 CSV of location samples to one latest row per device and writes  *)
(* it to Redis, and the three API views (latest-info, start-end-location,  *)
(* location-points) that read Redis and the CSV.                           *)
(*                                                                         *)
(* Strings whose order or content matters (time stamps, request dates and  *)
(* times) are sequences of ASCII codes, so that Python's string comparison *)
(* is the lexicographic order of the sequences.  Every handler is one      *)
(* atomic action, and operations run one at a time.  Redis reads (hget,    *)
(* hgetall) always answer; a Redis write (hmset) and the S3 fetch may      *)
(* fail.  The CSV always carries its header row and its four columns, its  *)
(* time stamps are strings or missing, and device ids in the URL are       *)
(* numeric.  groupby(...).idxmax() is that of a pandas that accepts a      *)
(* column of str (2.1 and later).                                          *)
(***************************************************************************)
EXTENDS Integers, Sequences, FiniteSets, TLC

VARIABLES
    csv,             \* rows of the CSV object stored on S3
    redis_instance,  \* Redis: key -> hash (field -> bytes), empty hash = no key
    response         \* the last operation and what it returned

vars == <<csv, redis_instance, response>>

\* Largest number of rows of the CSV.
MaxLen == 2

----------------------------------------------------------------------------
(* Data *)

\* device_fk_id values of the CSV
Devices == {1, 2}

\* <str:device_id> path segments of the three routes
DeviceIds == {"1", "2"}

\* int(device_id)
IntOf(device_id) == IF device_id = "1" THEN 1 ELSE 2

\* str(device_fk_id): the Redis key hmset encodes an integer name to
StrOf(device_fk_id) == IF device_fk_id = 1 THEN "1" ELSE "2"

\* A missing CSV cell (pandas NaN); no string is <<0>>.
NaN == <<0>>

\* f"{date}T{time}Z"
DateTimeStr(date, time) == date \o <<84>> \o time \o <<90>>

\* The dates ("1", "2") and times ("1", "2") a well-formed value is made of
Dates == {<<49>>, <<50>>}
Times == {<<49>>, <<50>>}

\* time_stamp cells of the CSV: "1T2Z", "2T1Z", or missing
TimeStamps == {DateTimeStr(<<49>>, <<50>>), DateTimeStr(<<50>>, <<49>>), NaN}

\* (latitude, longitude) pairs of the CSV
Positions == {<<10, 20>>, <<30, 40>>}

Rows ==
    { [device_fk_id |-> d, latitude |-> p[1], longitude |-> p[2], time_stamp |-> t] :
        d \in Devices, p \in Positions, t \in TimeStamps }

SeqsUpTo(S, n) == UNION { [1..k -> S] : k \in 0..n }

\* Python's str < str: lexicographic order of the code sequences
RECURSIVE StrLt(_, _)
StrLt(a, b) ==
    IF b = <<>> THEN FALSE
    ELSE IF a = <<>> THEN TRUE
    ELSE IF Head(a) # Head(b) THEN Head(a) < Head(b)
    ELSE StrLt(Tail(a), Tail(b))

StrLe(a, b) == a = b \/ StrLt(a, b)

----------------------------------------------------------------------------
(* Collaborators: S3 and Redis *)

\* What read_csv_from_s3 returns: a DataFrame of the rows, or None
DataFrame(rows) == [none |-> FALSE, rows |-> rows]
None == [none |-> TRUE, rows |-> <<>>]

\* read_csv_from_s3 with an empty DataFrame in place of None
ReadCsvEmptyOnFailure(s3_ok) == IF s3_ok THEN DataFrame(csv) ELSE DataFrame(<<>>)

\* read_csv_from_s3: the object's rows, or None when any S3 step raises
read_csv_from_s3(s3_ok) == IF s3_ok THEN DataFrame(csv) ELSE None

\* What an operation saw of S3: it did not call read_csv_from_s3, or the call
\* returned the rows, or it returned None
S3Outcome(called, s3_ok) ==
    IF ~called THEN "not read" ELSE IF s3_ok THEN "ok" ELSE "failed"

\* redis-py's encoding of a float value: repr(value).encode()
EncodeFloat(x) == [bytes |-> [repr |-> x]]

\* redis-py's encoding of a str value: value.encode()
EncodeStr(s) == [bytes |-> s]

\* bytes.decode()
Decode(b) == b.bytes

\* float(s) of the text of a float
Float(s) == s.repr

\* A hash without fields: what Redis holds for a key never written
EmptyHash == [f \in {} |-> EncodeStr(<<>>)]

\* HMSET key field value ...: sets the given fields, keeps the others
hmset(redis, name, mapping) ==
    [redis EXCEPT ![name] =
        [f \in DOMAIN redis[name] \cup DOMAIN mapping |->
            IF f \in DOMAIN mapping THEN mapping[f] ELSE redis[name][f]]]

\* HGETALL key: the whole hash, empty for a missing key
hgetall(name) == redis_instance[name]

\* HGET key field: <<value>>, or <<>> for None
hget(name, field) ==
    IF field \in DOMAIN redis_instance[name] THEN <<redis_instance[name][field]>> ELSE <<>>

----------------------------------------------------------------------------
(* add_cache: Command.handle *)

\* df["time_stamp"].astype(str) of one cell: a missing cell becomes "nan"
AsTypeStr(t) == IF t = NaN THEN <<110, 97, 110>> ELSE t

\* df["time_stamp"] = df["time_stamp"].astype(str)
WithStrTimeStamps(rows) ==
    [i \in DOMAIN rows |-> [rows[i] EXCEPT !.time_stamp = AsTypeStr(@)]]

\* the row labels of one group of groupby("device_fk_id")
Group(rows, d) == {i \in DOMAIN rows : rows[i].device_fk_id = d}

\* idxmin in place of idxmax
IdxMin(rows, d) ==
    CHOOSE i \in Group(rows, d) :
        \A j \in Group(rows, d) :
            /\ ~StrLt(rows[j].time_stamp, rows[i].time_stamp)
            /\ (j < i => StrLt(rows[i].time_stamp, rows[j].time_stamp))

\* idxmax of one group: the label of the first row holding the greatest value
IdxMax(rows, d) ==
    CHOOSE i \in Group(rows, d) :
        \A j \in Group(rows, d) :
            /\ ~StrLt(rows[i].time_stamp, rows[j].time_stamp)
            /\ (j < i => StrLt(rows[j].time_stamp, rows[i].time_stamp))

\* the group keys in ascending order, as groupby sorts them
RECURSIVE SortedKeys(_)
SortedKeys(S) ==
    IF S = {} THEN <<>>
    ELSE LET m == CHOOSE x \in S : \A y \in S : x <= y
         IN <<m>> \o SortedKeys(S \ {m})

\* df.loc[df.groupby("device_fk_id")["time_stamp"].idxmax()]
LatestData(rows) ==
    LET keys == SortedKeys({rows[i].device_fk_id : i \in DOMAIN rows})
    IN [k \in DOMAIN keys |-> rows[IdxMax(rows, keys[k])]]

\* the mapping handle builds for one row
RowData(row) ==
    [latitude |-> EncodeFloat(row.latitude),
     longitude |-> EncodeFloat(row.longitude),
     time_stamp |-> EncodeStr(row.time_stamp)]

\* The for loop over latest_data.iterrows(): hmset row after row; the first
\* hmset that raises ends the loop (the exception leaves the try block).
\* failing: the devices whose hmset raises in this run.
RECURSIVE WriteLoop(_, _, _, _)
WriteLoop(redis, latest, failing, done) ==
    IF latest = <<>> THEN [redis |-> redis, raised |-> FALSE, hmset |-> done]
    ELSE IF Head(latest).device_fk_id \in failing
         THEN [redis |-> redis, raised |-> TRUE, hmset |-> done]
    ELSE WriteLoop(hmset(redis, StrOf(Head(latest).device_fk_id), RowData(Head(latest))),
                   Tail(latest), failing,
                   Append(done, StrOf(Head(latest).device_fk_id)))

\* handle that empties Redis before it writes the rows
HandleAfterFlush(s3_ok, failing) ==
    LET df == read_csv_from_s3(s3_ok)
    IN  IF df.none
        THEN [redis |-> redis_instance,
              response |-> [op |-> "add_cache", s3 |-> S3Outcome(TRUE, s3_ok),
                            failing |-> failing, style |-> "ERROR", hmset |-> <<>>]]
        ELSE LET run == WriteLoop([k \in DeviceIds |-> EmptyHash],
                                  LatestData(WithStrTimeStamps(df.rows)), failing, <<>>)
             IN [redis |-> run.redis,
                 response |-> [op |-> "add_cache", s3 |-> S3Outcome(TRUE, s3_ok),
                               failing |-> failing,
                               style |-> IF run.raised THEN "ERROR" ELSE "SUCCESS",
                               hmset |-> run.hmset]]

\* Command.handle: what the run leaves in Redis and what it reports (the
\* style of the line written to stdout, and the hmset calls that returned)
handle(s3_ok, failing) ==
    LET df == read_csv_from_s3(s3_ok)
    IN  IF df.none
        THEN \* df["time_stamp"] raises TypeError: caught, ERROR written
             [redis |-> redis_instance,
              response |-> [op |-> "add_cache", s3 |-> S3Outcome(TRUE, s3_ok),
                            failing |-> failing, style |-> "ERROR", hmset |-> <<>>]]
        ELSE LET run == WriteLoop(redis_instance, LatestData(WithStrTimeStamps(df.rows)),
                                  failing, <<>>)
             IN [redis |-> run.redis,
                 response |-> [op |-> "add_cache", s3 |-> S3Outcome(TRUE, s3_ok),
                               failing |-> failing,
                               style |-> IF run.raised THEN "ERROR" ELSE "SUCCESS",
                               hmset |-> run.hmset]]

----------------------------------------------------------------------------
(* views.py: LatestDeviceInfoAPIView.get *)

\* {key.decode(): value.decode() for key, value in hash.items()}
DecodeHash(hash) == [f \in DOMAIN hash |-> Decode(hash[f])]

\* get without the "if not device_data" branch
LatestDeviceInfoNo404(device_id) ==
    LET device_data == DecodeHash(hgetall(device_id))
    IN  /\ response' =
            [op |-> "latest_info", device_id |-> device_id,
             s3 |-> S3Outcome(FALSE, FALSE),
             status |-> 200, status_code |-> 200,
             message |-> "Device data retrieved successfully.",
             data |-> [f \in DOMAIN device_data \cup {"device_id"} |->
                         IF f = "device_id" THEN device_id ELSE device_data[f]]]
        /\ UNCHANGED <<csv, redis_instance>>

LatestDeviceInfo(device_id) ==
    LET device_data == DecodeHash(hgetall(device_id))
    IN  /\ response' =
            IF DOMAIN device_data = {}
            THEN [op |-> "latest_info", device_id |-> device_id,
                  s3 |-> S3Outcome(FALSE, FALSE),
                  status |-> 404, status_code |-> 404,
                  message |-> "Device data not found",
                  data |-> [error |-> "Device data not found"]]
            ELSE [op |-> "latest_info", device_id |-> device_id,
                  s3 |-> S3Outcome(FALSE, FALSE),
                  status |-> 200, status_code |-> 200,
                  message |-> "Device data retrieved successfully.",
                  \* device_data["device_id"] = device_id
                  data |-> [f \in DOMAIN device_data \cup {"device_id"} |->
                              IF f = "device_id" THEN device_id ELSE device_data[f]]]
        /\ UNCHANGED <<csv, redis_instance>>

----------------------------------------------------------------------------
(* views.py: StartEndLocationAPIView.get *)

\* df[df["device_fk_id"] == int(device_id)]: the matching rows, in order
RECURSIVE OfDevice(_, _)
OfDevice(rows, d) ==
    IF rows = <<>> THEN <<>>
    ELSE IF Head(rows).device_fk_id = d
         THEN <<Head(rows)>> \o OfDevice(Tail(rows), d)
         ELSE OfDevice(Tail(rows), d)

\* .iloc[0] without the sort
FirstUnsorted(rows) == {rows[1]}

\* The rows .sort_values(by="time_stamp").iloc[0] can yield: missing time
\* stamps sort last; the default sort is not stable, so any of the rows that
\* share the least time stamp may come first.  With only missing time stamps
\* the rows keep their order.
FirstSorted(rows) ==
    LET present == {i \in DOMAIN rows : rows[i].time_stamp # NaN}
    IN  IF present = {} THEN {rows[1]}
        ELSE {rows[i] : i \in {i \in present :
                \A j \in present : StrLe(rows[i].time_stamp, rows[j].time_stamp)}}

ServerError(op, device_id, s3) ==
    [op |-> op, device_id |-> device_id, s3 |-> s3,
     status |-> 500, status_code |-> 500, message |-> "Internal server error."]

StartEndLocation(device_id, s3_ok) ==
    LET cached == hget(device_id, "start_location")
        df == read_csv_from_s3(s3_ok)
        fetched == cached = <<>>
        device_rows == OfDevice(df.rows, IntOf(device_id))
        end_location_dict == DecodeHash(hgetall(device_id))
    IN  /\ \/ \* df is None (TypeError) or no row of the device (IndexError)
              /\ fetched /\ (df.none \/ device_rows = <<>>)
              /\ response' = ServerError("start_end", device_id, S3Outcome(fetched, s3_ok))
           \/ \* end_location_dict["latitude"]: KeyError
              /\ fetched => (~df.none /\ device_rows # <<>>)
              /\ "latitude" \notin DOMAIN end_location_dict
              /\ response' = ServerError("start_end", device_id, S3Outcome(fetched, s3_ok))
           \/ /\ fetched => (~df.none /\ device_rows # <<>>)
              /\ "latitude" \in DOMAIN end_location_dict
              /\ \E start_location \in
                    IF fetched
                    THEN {[latitude |-> r.latitude, longitude |-> r.longitude] :
                            r \in FirstSorted(device_rows)}
                    ELSE {cached[1]} :
                    response' =
                        [op |-> "start_end", device_id |-> device_id,
                         s3 |-> S3Outcome(fetched, s3_ok),
                         status |-> 200, status_code |-> 200,
                         message |-> "Start and end locations retrieved successfully.",
                         start_location |-> start_location,
                         end_location |->
                            [latitude |-> Float(end_location_dict["latitude"]),
                             longitude |-> Float(end_location_dict["longitude"])]]
        /\ UNCHANGED <<csv, redis_instance>>

----------------------------------------------------------------------------
(* views.py: LocationPointsAPIView.post, get_location_points_data *)

\* The four fields of the request body, in the order the view checks them
RequiredFields == <<"start_date", "start_time", "end_date", "end_time">>

\* Values a body gives a date field: "", "1", "2", and "x", which is no date
DateValues == {<<>>} \cup Dates \cup {<<120>>}

\* Values a body gives a time field: "", "1", "2"
TimeValues == {<<>>} \cup Times

\* request.data: any subset of the four fields, each with one of its values
RequestBodies ==
    UNION { { b \in [fs -> DateValues] :
                \A f \in fs : f \in {"start_time", "end_time"} => b[f] \in TimeValues } :
            fs \in SUBSET {"start_date", "start_time", "end_date", "end_time"} }

\* request.data[f] if f in request.data else None, then "not value":
\* an absent field and an empty value are both missing
IsMissing(data, f) == f \notin DOMAIN data \/ data[f] = <<>>

\* missing_fields that stops at the first missing field
FirstMissingField(data) ==
    LET all == SelectSeq(RequiredFields, LAMBDA f : IsMissing(data, f))
    IN  IF all = <<>> THEN <<>> ELSE <<Head(all)>>

\* missing_fields, in the order of the four checks
missing_fields(data) == SelectSeq(RequiredFields, LAMBDA f : IsMissing(data, f))

\* datetime.strptime(s, "%Y-%m-%dT%H:%M:%SZ") returns instead of raising
ParsesAsDateTime(date, time) == date \in Dates /\ time \in Times

\* the window with "<" in place of "<=" at its end
InWindowOpenEnd(t, start, end) == t # NaN /\ StrLe(start, t) /\ StrLt(t, end)

\* row["time_stamp"] >= start and row["time_stamp"] <= end, False on a missing cell
InWindow(t, start, end) == t # NaN /\ StrLe(start, t) /\ StrLe(t, end)

\* filtered_df, projected to latitude, longitude and time_stamp
RECURSIVE FilterPoints(_, _, _, _)
FilterPoints(rows, d, start, end) ==
    IF rows = <<>> THEN <<>>
    ELSE LET rest == FilterPoints(Tail(rows), d, start, end)
             row == Head(rows)
         IN  IF row.device_fk_id = d /\ InWindow(row.time_stamp, start, end)
             THEN <<[latitude |-> row.latitude, longitude |-> row.longitude,
                     time_stamp |-> row.time_stamp]>> \o rest
             ELSE rest

get_location_points_data(device_id, data, s3_ok) ==
    LET missing == missing_fields(data)
        df == read_csv_from_s3(s3_ok)
        start_datetime_str == DateTimeStr(data["start_date"], data["start_time"])
        end_datetime_str == DateTimeStr(data["end_date"], data["end_time"])
    IN  IF missing # <<>>
        THEN [op |-> "location_points", device_id |-> device_id, request |-> data,
              s3 |-> S3Outcome(FALSE, s3_ok), status |-> 400, status_code |-> 200,
              message |-> "Missing required fields", fields |-> missing]
        ELSE IF ~ParsesAsDateTime(data["start_date"], data["start_time"])
                \/ ~ParsesAsDateTime(data["end_date"], data["end_time"])
                \/ df.none
        THEN \* ValueError of strptime, TypeError of None["time_stamp"]: post's except
             [op |-> "location_points", device_id |-> device_id, request |-> data,
              s3 |-> S3Outcome(TRUE, s3_ok), status |-> 500, status_code |-> 500,
              message |-> "Internal server error."]
        ELSE [op |-> "location_points", device_id |-> device_id, request |-> data,
              s3 |-> S3Outcome(TRUE, s3_ok), status |-> 200, status_code |-> 200,
              message |-> "Location points data is retrieved successfully.",
              data |-> FilterPoints(df.rows, IntOf(device_id),
                                    start_datetime_str, end_datetime_str)]

post(device_id, data, s3_ok) ==
    /\ response' = get_location_points_data(device_id, data, s3_ok)
    /\ UNCHANGED <<csv, redis_instance>>

----------------------------------------------------------------------------
(* Operations run one at a time: the command's output or the view's response
   is returned before the next operation starts or the CSV object changes. *)

\* no operation is running
Idle == response.op = "none"

\* the command exits, or the view's Response reaches the client
Return ==
    /\ ~Idle
    /\ response' = [op |-> "none"]
    /\ UNCHANGED <<csv, redis_instance>>

\* The environment: a row is added to the CSV object on S3
AppendRow(row) ==
    /\ Idle
    /\ Len(csv) < MaxLen
    /\ csv' = Append(csv, row)
    /\ UNCHANGED <<redis_instance, response>>

\* The environment: the CSV object is replaced by one without rows
TruncateCsv ==
    /\ Idle
    /\ csv # <<>>
    /\ csv' = <<>>
    /\ UNCHANGED <<redis_instance, response>>

\* python manage.py add_cache
AddCache ==
    /\ Idle
    /\ \E s3_ok \in BOOLEAN :
          \E failing \in IF s3_ok THEN SUBSET Devices ELSE {{}} :
             /\ redis_instance' = handle(s3_ok, failing).redis
             /\ response' = handle(s3_ok, failing).response
    /\ UNCHANGED csv

LatestInfo ==
    /\ Idle
    /\ \E device_id \in DeviceIds : LatestDeviceInfo(device_id)

StartEnd ==
    /\ Idle
    /\ \E device_id \in DeviceIds, s3_ok \in BOOLEAN : StartEndLocation(device_id, s3_ok)

\* Bodies the service receives between cache runs: the window "1T1Z" to
\* "2T2Z", and the same body without end_time
SomeBodies ==
    { b \in RequestBodies :
        /\ {"start_date", "start_time", "end_date"} \subseteq DOMAIN b
        /\ b["start_date"] = <<49>> /\ b["start_time"] = <<49>> /\ b["end_date"] = <<50>>
        /\ "end_time" \in DOMAIN b => b["end_time"] = <<50>> }

LocationPoints ==
    /\ Idle
    /\ \E device_id \in DeviceIds, data \in SomeBodies, s3_ok \in BOOLEAN :
          post(device_id, data, s3_ok)

----------------------------------------------------------------------------

Init ==
    /\ csv = <<>>
    /\ redis_instance = [k \in DeviceIds |-> EmptyHash]
    /\ response = [op |-> "none"]

Next ==
    \/ \E row \in Rows : AppendRow(row)
    \/ TruncateCsv
    \/ AddCache
    \/ LatestInfo
    \/ StartEnd
    \/ LocationPoints
    \/ Return

Spec == Init /\ [][Next]_vars

----------------------------------------------------------------------------
(* Properties *)

\* the devices that have a row in the CSV
DevicesIn(rows) == {rows[i].device_fk_id : i \in DOMAIN rows}

\* the row labels of device d in the CSV
RowsOf(rows, d) == {i \in DOMAIN rows : rows[i].device_fk_id = d}

\* hash e is the cache entry of one row: exactly the three fields, latitude and
\* longitude those of the row, and the row's time stamp when the row has one
IsEntryOf(e, row) ==
    /\ DOMAIN e = {"latitude", "longitude", "time_stamp"}
    /\ Float(Decode(e["latitude"])) = row.latitude
    /\ Float(Decode(e["longitude"])) = row.longitude
    /\ row.time_stamp # NaN => Decode(e["time_stamp"]) = row.time_stamp

\* hash e is a latest record of device d in rows: the entry of one row of d,
\* its time stamp not before any time stamp of d
IsLatestOf(e, rows, d) ==
    /\ \E i \in RowsOf(rows, d) : IsEntryOf(e, rows[i])
    /\ \A j \in RowsOf(rows, d) :
          rows[j].time_stamp # NaN => StrLe(rows[j].time_stamp, Decode(e["time_stamp"]))

\* a run of add_cache that fetched the CSV and in which every hmset succeeded
RunWithoutFailure ==
    /\ response.op = "add_cache"
    /\ response.s3 = "ok"
    /\ response.failing \cap DevicesIn(csv) = {}

\* C1: a run whose fetch and writes all succeed reports success, calls hmset
\* exactly once for every device of the CSV and for no other key, and leaves
\* for every device of the CSV the entry of one of its rows whose time stamp
\* is not before any time stamp of the device; an empty CSV writes nothing.
C1_OneLatestEntryPerDevice ==
    RunWithoutFailure =>
        /\ response.style = "SUCCESS"
        /\ {response.hmset[k] : k \in DOMAIN response.hmset}
              = {StrOf(d) : d \in DevicesIn(csv)}
        /\ Len(response.hmset) = Cardinality(DevicesIn(csv))
        /\ \A d \in DevicesIn(csv) : IsLatestOf(redis_instance[StrOf(d)], csv, d)

\* C1 witness: a successful run over two rows of one device with different
\* time stamps, the later one first.
C1_Witness ==
    /\ RunWithoutFailure
    /\ Len(csv) = 2
    /\ csv[1].device_fk_id = csv[2].device_fk_id
    /\ csv[1].time_stamp # NaN /\ csv[2].time_stamp # NaN
    /\ StrLt(csv[2].time_stamp, csv[1].time_stamp)
    /\ csv[1].latitude # csv[2].latitude

\* C4 as claimed: when an hmset of a run fails, every device of the CSV whose
\* own hmset does not fail still ends the run with its latest record cached,
\* and the run reports the failure.
C4_FailedWriteIsSkipped ==
    (response.op = "add_cache" /\ response.s3 = "ok"
        /\ response.failing \cap DevicesIn(csv) # {}) =>
        /\ response.style = "ERROR"
        /\ \A d \in DevicesIn(csv) \ response.failing :
              IsLatestOf(redis_instance[StrOf(d)], csv, d)

\* C7: a run whose fetch fails reports an error, calls no hmset and leaves
\* Redis as it was; a run that fetches an empty CSV reports success.
C7_FetchFailureAborts ==
    [][response'.op = "add_cache" =>
        /\ response'.s3 = "failed" =>
              /\ response'.style = "ERROR"
              /\ response'.hmset = <<>>
              /\ redis_instance' = redis_instance
        /\ (response'.s3 = "ok" /\ csv = <<>>) =>
              /\ response'.style = "SUCCESS"
              /\ redis_instance' = redis_instance]_vars

\* C7 witness: a failed fetch with a CSV that has rows and a cache that has
\* entries.
C7_Witness ==
    /\ response.op = "add_cache"
    /\ response.s3 = "failed"
    /\ csv # <<>>
    /\ \E k \in DeviceIds : DOMAIN redis_instance[k] # {}

\* the time stamps device d has in rows, missing cells left out
PresentTimeStamps(rows, d) ==
    {rows[i].time_stamp : i \in {j \in RowsOf(rows, d) : rows[j].time_stamp # NaN}}

\* C8 as claimed: after a successful run, the entry of a device that has a
\* row with a time stamp carries the greatest time stamp among those rows,
\* never the text of a missing cell.
C8_MissingTimeStampsExcluded ==
    RunWithoutFailure =>
        \A d \in DevicesIn(csv) :
            PresentTimeStamps(csv, d) # {} =>
                /\ Decode(redis_instance[StrOf(d)]["time_stamp"]) \in PresentTimeStamps(csv, d)
                /\ \A t \in PresentTimeStamps(csv, d) :
                      StrLe(t, Decode(redis_instance[StrOf(d)]["time_stamp"]))

\* C9: a run without failure leaves every device of its CSV with a latest
\* record of that CSV and every other key as it was; the three views never
\* change Redis; and after a run without failure, one more run over the same
\* CSV would leave Redis exactly as it is.
C9_CacheLifecycle ==
    /\ [][/\ (response'.op = "add_cache" /\ response'.s3 = "ok"
               /\ response'.failing \cap DevicesIn(csv) = {}) =>
               \A d \in Devices :
                  IF d \in DevicesIn(csv)
                  THEN IsLatestOf(redis_instance'[StrOf(d)], csv, d)
                  ELSE redis_instance'[StrOf(d)] = redis_instance[StrOf(d)]
          /\ response'.op \in {"latest_info", "start_end", "location_points"} =>
               redis_instance' = redis_instance]_vars
    /\ [](RunWithoutFailure => handle(TRUE, {}).redis = redis_instance)

\* C9 witness: after a run without failure, Redis still holds the entry of a
\* device that has no row in the CSV of that run.
C9_Witness ==
    /\ RunWithoutFailure
    /\ csv # <<>>
    /\ \E d \in Devices \ DevicesIn(csv) : DOMAIN redis_instance[StrOf(d)] # {}

\* C3: latest-info answers from Redis alone: 200 with the decoded hash and
\* the device id when the key has a hash, 404 when it has none; it does not
\* call read_csv_from_s3 and changes neither Redis nor the CSV.
C3_LatestFromCacheOnly ==
    [][response'.op = "latest_info" =>
        LET hash == redis_instance[response'.device_id]
        IN  /\ response'.s3 = "not read"
            /\ redis_instance' = redis_instance
            /\ csv' = csv
            /\ DOMAIN hash = {} => response'.status = 404
            /\ DOMAIN hash # {} =>
                  /\ response'.status = 200
                  /\ DOMAIN response'.data = DOMAIN hash \cup {"device_id"}
                  /\ response'.data["device_id"] = response'.device_id
                  /\ \A f \in DOMAIN hash : response'.data[f] = Decode(hash[f])]_vars

\* C3 witness: 404 for a device that has rows in the CSV.
C3_Witness ==
    /\ response.op = "latest_info"
    /\ response.status = 404
    /\ IntOf(response.device_id) \in DevicesIn(csv)

\* C5 as claimed: start-end-location for a key without a hash answers 404,
\* here with the CSV fetched and holding rows of the device, so that nothing
\* but the missing hash stands in the way.
C5_StartEndNotFound ==
    (response.op = "start_end" /\ DOMAIN redis_instance[response.device_id] = {}
        /\ response.s3 = "ok" /\ IntOf(response.device_id) \in DevicesIn(csv))
        => response.status = 404

\* row i of device d has the least time stamp of the device: no row of d has
\* a time stamp before it
HasLeastTimeStamp(rows, d, i) ==
    /\ i \in RowsOf(rows, d)
    /\ \A j \in RowsOf(rows, d) :
          rows[j].time_stamp # NaN =>
             /\ rows[i].time_stamp # NaN
             /\ StrLe(rows[i].time_stamp, rows[j].time_stamp)

----------------------------------------------------------------------------
(* One location-points request against any CSV: the view neither reads nor
   writes Redis, so the request is judged against the CSV alone. *)
InitPoints ==
    /\ csv \in SeqsUpTo(Rows, MaxLen)
    /\ redis_instance = [k \in DeviceIds |-> EmptyHash]
    /\ response = [op |-> "none"]

AnyLocationPoints ==
    /\ Idle
    /\ \E device_id \in DeviceIds, data \in RequestBodies, s3_ok \in BOOLEAN :
          post(device_id, data, s3_ok)

SpecPoints == InitPoints /\ [][AnyLocationPoints]_vars

\* the fields a body does not carry
AbsentFields(data) ==
    {f \in {"start_date", "start_time", "end_date", "end_time"} : f \notin DOMAIN data}

\* the fields a body does not carry or carries with an empty value
AbsentOrEmptyFields(data) ==
    {f \in {"start_date", "start_time", "end_date", "end_time"} :
        f \notin DOMAIN data \/ data[f] = <<>>}

\* the names a message lists
Named(fields) == {fields[k] : k \in DOMAIN fields}

\* the body carries the four fields, each a date or a time
WellFormed(data) ==
    /\ AbsentFields(data) = {}
    /\ data["start_date"] \in Dates /\ data["end_date"] \in Dates
    /\ data["start_time"] \in Times /\ data["end_time"] \in Times

\* row i of the CSV is a row of device d with start <= time_stamp <= end
Matches(i, d, start, end) ==
    /\ csv[i].device_fk_id = d
    /\ csv[i].time_stamp # NaN
    /\ StrLe(start, csv[i].time_stamp)
    /\ StrLe(csv[i].time_stamp, end)

C6_NamesExactlyAbsentFields ==
    response.op = "location_points" =>
        LET absent == AbsentFields(response.request)
        IN  /\ absent # {} =>
                /\ response.status = 400
                /\ response.message = "Missing required fields"
                /\ Named(response.fields) = absent
                /\ response.s3 = "not read"
            /\ absent = {} => response.message # "Missing required fields"

\* C6 amended: the answer is the 400 naming the missing fields exactly when
\* a field is absent from the body or empty in it; the message names each
\* such field once and no other, and the CSV is not read.
C6_NamesAbsentOrEmptyFields ==
    response.op = "location_points" =>
        LET missing == AbsentOrEmptyFields(response.request)
        IN  /\ missing # {} =>
                /\ response.status = 400
                /\ response.message = "Missing required fields"
                /\ Named(response.fields) = missing
                /\ Len(response.fields) = Cardinality(missing)
                /\ response.s3 = "not read"
            /\ missing = {} =>
                /\ response.message # "Missing required fields"
                /\ response.status # 400

\* C6 witness: a 400 naming two fields, one absent and one empty, the first
\* of the four not among them.
C6_Witness ==
    /\ response.op = "location_points"
    /\ response.status = 400
    /\ Len(response.fields) = 2
    /\ response.fields[1] # "start_date"
    /\ \E f \in Named(response.fields) : f \notin DOMAIN response.request
    /\ \E f \in Named(response.fields) :
          f \in DOMAIN response.request /\ response.request[f] = <<>>

====
